---- MODULE Spec2Model ----
(***************************************************************************)
(* dodemansknop: a dead man's switch.  HTTP handlers put keys on a bounded *)
(* ping channel; the engine thread takes them off, schedules a one-shot    *)
(* timer per ping and stores its Guard in active_timers (dropping the      *)
(* Guard it replaces); the timer thread runs the callback of an expired    *)
(* timer whose Guard is still alive, which puts the key on the unbounded   *)
(* alert channel; the dispatcher thread takes alerts off and calls the     *)
(* notifier.  Time is discrete: every timer carries the time left until    *)
(* its date and Tick lets one unit of time pass.  No step is urgent: a     *)
(* thread may be arbitrarily late.                                         *)
(***************************************************************************)
EXTENDS Integers, Sequences, FiniteSets, TLC

\* Bounds of the model.
NumHandlers == 2     \* handler invocations (requests) in a run
PingCapacity == 1    \* buffer of the ping channel: stands for the 32 of sync_channel(32)

\* The grace period, chrono::Duration::seconds(5), in ticks of one second.
delay == 5

Keys == {"a", "b"}
NoKey == "-"
Handlers == 1..NumHandlers

VARIABLES
    mpc,            \* main: "boot", "serving", "stopped" (server ended), "aborted"
    settings,       \* main: the settings loaded at startup, until build_notifier
                    \* has read them (nothing reads them afterwards)
    notifier,       \* main: the notifier built ("none" before and on error)
    hpc,            \* handler p: "idle" (not yet invoked), "sending" (inside tx.send), "done"
    hkey,           \* handler p: the id of its request, until tx.send has taken it
    hstatus,        \* handler p: HTTP status returned (0 = none yet)
    hfull,          \* handler p: the ping channel was full when tx.send was called
    pingChan,       \* (tx_ping, rx_ping): keys in the channel's buffer
    epc,            \* engine thread: "start", "recv", "insert", "dead"
    id,             \* engine thread: the key received (local id)
    newGuard,       \* engine thread: Guard returned by schedule_with_delay, not yet inserted
    active_timers,  \* engine thread: key -> Guard (index into timers, 0 = no entry)
    timers,         \* the timer's schedule: one record per schedule_with_delay call
    tpc,            \* timer thread: 0, or the index of the timer whose callback is running
    alertChan,      \* (tx_alert, rx_alert): keys in the channel
    dpc,            \* dispatcher thread: "recv", "notify" (inside notify_failure)
    dkey,           \* dispatcher thread: the key handed to notify_failure
    sent,           \* history: every key ever put on the alert channel, in order
    notified,       \* history: the key of every call of notify_failure, in order
    outcome,        \* history: the result of every call that returned (TRUE = Ok)
    dwarned,        \* history: the dispatcher has logged a receive error
    ewarned         \* history: the engine has logged a receive error

vars == <<mpc, settings, notifier, ewarned, hpc, hkey, hstatus, hfull, pingChan, epc, id, newGuard, active_timers,
          timers, tpc, alertChan, dpc, dkey, sent, notified, outcome,
          dwarned>>

mainVars == <<mpc, settings, notifier>>
handlerVars == <<hpc, hkey, hstatus, hfull>>
engineVars == <<epc, id, newGuard, active_timers>>
dispatcherVars == <<dpc, dkey, notified, outcome, dwarned>>

\* Mutant of Timer: the Guard is not kept (let _ = schedule_with_delay(..)), so
\* the timer is cancelled as soon as it is scheduled.
MutTimerGuardNotKept(k) == [key |-> k, remaining |-> delay, should_execute |-> FALSE,
                            st |-> "scheduled", lapsed |-> FALSE]

\* A timer record.  remaining: ticks until its date; should_execute: the Guard's
\* flag (FALSE once the Guard is dropped); st: "scheduled", "firing" (callback
\* running), "fired", "discarded" (popped with a dropped Guard).  lapsed is
\* history: the date passed while this was the newest timer of its key, that is,
\* no later ping of the key had been processed within the grace period.
Timer(k) == [key |-> k, remaining |-> delay, should_execute |-> TRUE,
             st |-> "scheduled", lapsed |-> FALSE]

TimerIds == 1..Len(timers)

\* The newest timer of a key is the one scheduled by its most recent ping.
IsNewest(i) == \A j \in TimerIds : timers[j].key = timers[i].key => j <= i

\* The receiving end of the ping channel lives as long as the engine thread.
ReceiverAlive == epc # "dead"

\* The settings build_notifier reads: notifier_type, and whether the optional
\* webhook section is there.
Settings == [notifier_type : {"webhook", "noop", "smtp"}, webhook : BOOLEAN]

\* Mutant of BuildNotifier: an unknown notifier_type falls back to the no-op.
MutBuildNotifierFallsBack(cfg) ==
    IF cfg.notifier_type = "webhook"
    THEN IF cfg.webhook THEN [ok |-> TRUE, val |-> "webhook"]
                        ELSE [ok |-> FALSE, val |-> "no webhook settings found"]
    ELSE [ok |-> TRUE, val |-> "noop"]

\* build_notifier: Ok(notifier) or Err(message).
BuildNotifier(cfg) ==
    IF cfg.notifier_type = "webhook"
    THEN IF cfg.webhook THEN [ok |-> TRUE, val |-> "webhook"]
                        ELSE [ok |-> FALSE, val |-> "no webhook settings found"]
    ELSE IF cfg.notifier_type = "noop"
         THEN [ok |-> TRUE, val |-> "noop"]
         ELSE [ok |-> FALSE, val |-> "unsupported notifier"]

\* The results notify_failure can return: the no-op notifier always succeeds,
\* the webhook notifier succeeds or fails.
NotifyResults(n) == IF n = "noop" THEN {TRUE} ELSE BOOLEAN

\* The threads are spawned once the notifier is built.
Spawned == mpc \in {"serving", "stopped"}

\* The settings once build_notifier has returned.
SettingsRead == [notifier_type |-> "-", webhook |-> FALSE]

Init ==
    /\ mpc = "boot"
    /\ settings \in Settings
    /\ notifier = "none"
    /\ ewarned = FALSE
    /\ hpc = [p \in Handlers |-> "idle"]
    /\ hkey = [p \in Handlers |-> NoKey]
    /\ hstatus = [p \in Handlers |-> 0]
    /\ hfull = [p \in Handlers |-> FALSE]
    /\ pingChan = <<>>
    /\ epc = "start"
    /\ id = NoKey
    /\ newGuard = 0
    /\ active_timers = [k \in Keys |-> 0]
    /\ timers = <<>>
    /\ tpc = 0
    /\ alertChan = <<>>
    /\ dpc = "recv"
    /\ dkey = NoKey
    /\ sent = <<>>
    /\ notified = <<>>
    /\ outcome = <<>>
    /\ dwarned = FALSE

(***************************************************************************)
(* main                                                                    *)
(***************************************************************************)

\* build_notifier(&settings).unwrap(): on Ok the dispatcher and engine threads
\* are spawned and the server starts; on Err main panics before any of that.
Boot ==
    /\ mpc = "boot"
    /\ IF BuildNotifier(settings).ok
       THEN /\ notifier' = BuildNotifier(settings).val
            /\ mpc' = "serving"
       ELSE /\ notifier' = notifier
            /\ mpc' = "aborted"
    /\ settings' = SettingsRead
    /\ UNCHANGED <<ewarned, handlerVars, pingChan, engineVars, timers,
                   tpc, alertChan, dispatcherVars, sent>>

\* warp::serve(routes).run(..) ends: the server and its tx_ping are dropped;
\* handlers already running keep their clone until they return.
ServerStop ==
    /\ mpc = "serving"
    /\ mpc' = "stopped"
    /\ UNCHANGED <<settings, notifier, ewarned, handlerVars, pingChan, engineVars,
                   timers, tpc, alertChan, dispatcherVars, sent>>

(***************************************************************************)
(* handlers::ping                                                          *)
(***************************************************************************)

\* A request POST /ping/{k} arrives and its handler calls tx.send(id).
\* Handlers are interchangeable: they are invoked in the order of their index.
HandlerCall(p, k) ==
    /\ mpc = "serving"
    /\ hpc[p] = "idle"
    /\ IF p = 1 THEN TRUE ELSE hpc[p - 1] # "idle"
    /\ hpc' = [hpc EXCEPT ![p] = "sending"]
    /\ hkey' = [hkey EXCEPT ![p] = k]
    /\ hfull' = [hfull EXCEPT ![p] = (Len(pingChan) = PingCapacity)]
    /\ UNCHANGED <<mainVars, ewarned, hstatus, pingChan, engineVars, timers, tpc, alertChan,
                   dispatcherVars, sent>>

\* Mutant of SendCanEnqueue: an unbounded mpsc::channel() for the pings.
MutSendCanEnqueueUnbounded == epc # "dead"

\* SyncSender::send blocks while the buffer is full and the receiver is alive.
SendCanEnqueue == ReceiverAlive /\ Len(pingChan) < PingCapacity

\* tx.send(id) returns Ok: the key is in the buffer, the handler answers 200.
HandlerSendOk(p) ==
    /\ hpc[p] = "sending"
    /\ SendCanEnqueue
    /\ pingChan' = Append(pingChan, hkey[p])
    /\ hstatus' = [hstatus EXCEPT ![p] = 200]
    /\ hpc' = [hpc EXCEPT ![p] = "done"]
    /\ hkey' = [hkey EXCEPT ![p] = NoKey]
    /\ UNCHANGED <<mainVars, ewarned, hfull, engineVars, timers, tpc, alertChan,
                   dispatcherVars, sent>>

\* Mutant of SendFails: try_send, which also fails on a full buffer.
MutSendFailsWhenFull == epc = "dead" \/ Len(pingChan) = PingCapacity

\* SyncSender::send fails only when the receiver is gone.
SendFails == ~ReceiverAlive

\* Mutant of HandlerSendErr: the Err arm answers 200 as well.
MutHandlerSendErrAnswersOk(p) ==
    /\ hpc[p] = "sending"
    /\ SendFails
    /\ hstatus' = [hstatus EXCEPT ![p] = 200]
    /\ hpc' = [hpc EXCEPT ![p] = "done"]
    /\ hkey' = [hkey EXCEPT ![p] = NoKey]
    /\ UNCHANGED <<mainVars, ewarned, hfull, pingChan, engineVars, timers, tpc, alertChan,
                   dispatcherVars, sent>>

\* tx.send(id) returns Err: the handler logs and answers 503.
HandlerSendErr(p) ==
    /\ hpc[p] = "sending"
    /\ SendFails
    /\ hstatus' = [hstatus EXCEPT ![p] = 503]
    /\ hpc' = [hpc EXCEPT ![p] = "done"]
    /\ hkey' = [hkey EXCEPT ![p] = NoKey]
    /\ UNCHANGED <<mainVars, ewarned, hfull, pingChan, engineVars, timers, tpc, alertChan,
                   dispatcherVars, sent>>

(***************************************************************************)
(* engine thread                                                           *)
(***************************************************************************)

\* Mutant of EngineStart: the thread never reaches its loop (it parks after
\* creating the timer), with rx_ping still alive.
MutEngineStartParks ==
    /\ Spawned
    /\ epc = "start"
    /\ epc' = "parked"
    /\ UNCHANGED <<mainVars, ewarned, handlerVars, pingChan, id, newGuard, active_timers, timers,
                   tpc, alertChan, dispatcherVars, sent>>

\* timer::Timer::new() starts the timer thread.
EngineStart ==
    /\ Spawned
    /\ epc = "start"
    /\ epc' = "recv"
    /\ UNCHANGED <<mainVars, ewarned, handlerVars, pingChan, id, newGuard, active_timers, timers,
                   tpc, alertChan, dispatcherVars, sent>>

\* timer::Timer::new() panics when the timer thread cannot be spawned: the
\* engine thread unwinds, dropping rx_ping (with what it buffers) and tx_alert.
EnginePanic ==
    /\ Spawned
    /\ epc = "start"
    /\ epc' = "dead"
    /\ pingChan' = <<>>
    /\ UNCHANGED <<mainVars, ewarned, handlerVars, id, newGuard, active_timers, timers, tpc,
                   alertChan, dispatcherVars, sent>>

\* rx_ping.recv() returns a key; timer.schedule_with_delay(delay, callback)
\* puts a new timer on the schedule and returns its Guard.
EngineRecv ==
    /\ epc = "recv"
    /\ pingChan # <<>>
    /\ id' = Head(pingChan)
    /\ pingChan' = Tail(pingChan)
    /\ timers' = Append(timers, Timer(Head(pingChan)))
    /\ newGuard' = Len(timers) + 1
    /\ epc' = "insert"
    /\ UNCHANGED <<mainVars, ewarned, handlerVars, active_timers, tpc, alertChan, dispatcherVars, sent>>

\* Every Sender of the ping channel is gone: the server has ended and no
\* handler is still inside tx.send.
PingSendersGone == mpc = "stopped" /\ \A p \in Handlers : hpc[p] # "sending"

\* Mutant of EngineRecvErr: the loop breaks on the error; the thread ends and
\* drops the timer and every Guard in active_timers.
MutEngineRecvErrBreaks ==
    /\ epc = "recv"
    /\ pingChan = <<>>
    /\ PingSendersGone
    /\ ewarned' = TRUE
    /\ epc' = "dead"
    /\ timers' = [i \in TimerIds |-> [timers[i] EXCEPT !.should_execute = FALSE]]
    /\ active_timers' = [k \in Keys |-> 0]
    /\ UNCHANGED <<mainVars, handlerVars, pingChan, id, newGuard, tpc, alertChan,
                   dispatcherVars, sent>>

\* rx_ping.recv() returns Err: the engine logs a warning and continues with
\* the next recv.
EngineRecvErr ==
    /\ epc = "recv"
    /\ pingChan = <<>>
    /\ PingSendersGone
    /\ ewarned' = TRUE
    /\ UNCHANGED <<mainVars, handlerVars, pingChan, engineVars, timers, tpc,
                   alertChan, dispatcherVars, sent>>

\* Dropping a Guard clears its should_execute flag.
DropGuard(ts, g) ==
    IF g = 0 THEN ts ELSE [ts EXCEPT ![g].should_execute = FALSE]

\* Mutant of EngineInsert: one slot instead of a map: the Guard of every other
\* key is dropped as well.
MutEngineInsertSingleSlot ==
    /\ epc = "insert"
    /\ active_timers' = [k \in Keys |-> IF k = id THEN newGuard ELSE 0]
    /\ timers' = [i \in TimerIds |->
                     IF \E k \in Keys : active_timers[k] = i
                     THEN [timers[i] EXCEPT !.should_execute = FALSE]
                     ELSE timers[i]]
    /\ newGuard' = 0
    /\ id' = NoKey
    /\ epc' = "recv"
    /\ UNCHANGED <<mainVars, ewarned, handlerVars, pingChan, tpc, alertChan, dispatcherVars, sent>>

\* Mutant of EngineInsert: entry(id).or_insert(guard): an existing entry is
\* kept and the new Guard is dropped.
MutEngineInsertKeepsOld ==
    /\ epc = "insert"
    /\ IF active_timers[id] = 0
       THEN /\ active_timers' = [active_timers EXCEPT ![id] = newGuard]
            /\ timers' = timers
       ELSE /\ active_timers' = active_timers
            /\ timers' = DropGuard(timers, newGuard)
    /\ newGuard' = 0
    /\ id' = NoKey
    /\ epc' = "recv"
    /\ UNCHANGED <<mainVars, ewarned, handlerVars, pingChan, tpc, alertChan, dispatcherVars, sent>>

\* active_timers.insert(id, guard): the entry of id is overwritten, and the
\* Guard it held (if any) is returned and dropped.
EngineInsert ==
    /\ epc = "insert"
    /\ active_timers' = [active_timers EXCEPT ![id] = newGuard]
    /\ timers' = DropGuard(timers, active_timers[id])
    /\ newGuard' = 0
    /\ id' = NoKey
    /\ epc' = "recv"
    /\ UNCHANGED <<mainVars, ewarned, handlerVars, pingChan, tpc, alertChan, dispatcherVars, sent>>

(***************************************************************************)
(* timer thread                                                            *)
(***************************************************************************)

\* One unit of time passes for every timer still on the schedule.
TickTimer(i) ==
    IF timers[i].st = "scheduled" /\ timers[i].remaining > 0
    THEN [timers[i] EXCEPT !.remaining = @ - 1,
                           !.lapsed = (timers[i].remaining = 1 /\ IsNewest(i))]
    ELSE timers[i]

Tick ==
    /\ timers' = [i \in TimerIds |-> TickTimer(i)]
    /\ UNCHANGED <<mainVars, ewarned, handlerVars, pingChan, engineVars, tpc, alertChan,
                   dispatcherVars, sent>>

\* Mutant of ShouldExecute: the scheduler does not look at the Guard.
MutShouldExecuteIgnoresGuard(i) == TRUE

\* The scheduler runs the callback of a due timer only if its Guard is alive.
ShouldExecute(i) == timers[i].should_execute

\* The schedule is ordered by date, and every schedule_with_delay call gives
\* a later date than the calls before it: the timer taken off is the earliest
\* scheduled one.
EarliestScheduled(i) == \A j \in TimerIds : j < i => timers[j].st # "scheduled"

\* The timer thread takes a due timer off the schedule; with a live Guard it
\* starts the callback, otherwise the timer is discarded.
TimerPop(i) ==
    /\ tpc = 0
    /\ timers[i].st = "scheduled"
    /\ timers[i].remaining = 0
    /\ EarliestScheduled(i)
    /\ IF ShouldExecute(i)
       THEN /\ timers' = [timers EXCEPT ![i].st = "firing"]
            /\ tpc' = i
       ELSE /\ timers' = [timers EXCEPT ![i].st = "discarded"]
            /\ tpc' = 0
    /\ UNCHANGED <<mainVars, ewarned, handlerVars, pingChan, engineVars, alertChan, dispatcherVars, sent>>

\* Mutant of TimerCallback: the callback also prunes the key's registry entry.
MutTimerCallbackPrunes ==
    /\ tpc # 0
    /\ alertChan' = Append(alertChan, timers[tpc].key)
    /\ sent' = Append(sent, timers[tpc].key)
    /\ timers' = [timers EXCEPT ![tpc].st = "fired"]
    /\ tpc' = 0
    /\ active_timers' = [active_timers EXCEPT ![timers[tpc].key] = 0]
    /\ UNCHANGED <<mainVars, ewarned, handlerVars, pingChan, epc, id, newGuard, dispatcherVars>>

\* Mutant of TimerCallback: schedule_repeating, the timer goes back on the
\* schedule after its callback.
MutTimerCallbackRepeats ==
    /\ tpc # 0
    /\ alertChan' = Append(alertChan, timers[tpc].key)
    /\ sent' = Append(sent, timers[tpc].key)
    /\ timers' = [timers EXCEPT ![tpc].st = "scheduled", ![tpc].remaining = delay]
    /\ tpc' = 0
    /\ UNCHANGED <<mainVars, ewarned, handlerVars, pingChan, engineVars, dispatcherVars>>

\* Mutant of TimerCallback: a bounded alert channel (sync_channel(1)), on
\* which the send blocks while an alert is pending.
MutTimerCallbackBounded ==
    /\ tpc # 0
    /\ Len(alertChan) < 1
    /\ alertChan' = Append(alertChan, timers[tpc].key)
    /\ sent' = Append(sent, timers[tpc].key)
    /\ timers' = [timers EXCEPT ![tpc].st = "fired"]
    /\ tpc' = 0
    /\ UNCHANGED <<mainVars, ewarned, handlerVars, pingChan, engineVars, dispatcherVars>>

\* The callback: tx_cpy.send(idc.clone()) on the unbounded alert channel.
TimerCallback ==
    /\ tpc # 0
    /\ alertChan' = Append(alertChan, timers[tpc].key)
    /\ sent' = Append(sent, timers[tpc].key)
    /\ timers' = [timers EXCEPT ![tpc].st = "fired"]
    /\ tpc' = 0
    /\ UNCHANGED <<mainVars, ewarned, handlerVars, pingChan, engineVars, dispatcherVars>>

(***************************************************************************)
(* dispatcher thread                                                       *)
(***************************************************************************)

\* Mutant of DispatcherRecv: the newest alert is taken first.
MutDispatcherRecvNewestFirst ==
    /\ dpc = "recv"
    /\ alertChan # <<>>
    /\ dkey' = alertChan[Len(alertChan)]
    /\ alertChan' = SubSeq(alertChan, 1, Len(alertChan) - 1)
    /\ notified' = Append(notified, alertChan[Len(alertChan)])
    /\ dpc' = "notify"
    /\ UNCHANGED <<mainVars, ewarned, handlerVars, pingChan, engineVars, timers, tpc, outcome,
                   dwarned, sent>>

\* rx_alert.recv() returns a key and notifier.notify_failure(&key) is called.
DispatcherRecv ==
    /\ dpc = "recv"
    /\ alertChan # <<>>
    /\ dkey' = Head(alertChan)
    /\ alertChan' = Tail(alertChan)
    /\ notified' = Append(notified, Head(alertChan))
    /\ dpc' = "notify"
    /\ UNCHANGED <<mainVars, ewarned, handlerVars, pingChan, engineVars, timers, tpc, outcome,
                   dwarned, sent>>

\* Every Sender of the alert channel is gone: tx_alert was dropped with the
\* engine thread and no callback holds a clone.
AlertSendersGone == epc = "dead"

\* rx_alert.recv() returns Err: the dispatcher logs a warning and continues.
DispatcherRecvErr ==
    /\ dpc = "recv"
    /\ alertChan = <<>>
    /\ AlertSendersGone
    /\ dwarned' = TRUE
    /\ UNCHANGED <<mainVars, ewarned, handlerVars, pingChan, engineVars, timers, tpc, alertChan,
                   dpc, dkey, notified, outcome, sent>>

\* Mutant of AfterNotify: an Err of the notifier ends the dispatcher loop.
MutAfterNotifyStopsOnErr(ok) == IF ok THEN "recv" ELSE "stopped"

\* What the dispatcher does once notify_failure has returned: both arms of the
\* match only log, and the loop goes on to the next recv.
AfterNotify(ok) == "recv"

\* notify_failure returns Ok (ok = TRUE) or Err (ok = FALSE).
DispatcherNotified(ok) ==
    /\ dpc = "notify"
    /\ ok \in NotifyResults(notifier)
    /\ outcome' = Append(outcome, ok)
    /\ dkey' = NoKey
    /\ dpc' = AfterNotify(ok)
    /\ UNCHANGED <<mainVars, ewarned, handlerVars, pingChan, engineVars, timers, tpc, alertChan,
                   notified, dwarned, sent>>

Next ==
    \/ Boot
    \/ ServerStop
    \/ EngineRecvErr
    \/ \E p \in Handlers, k \in Keys : HandlerCall(p, k)
    \/ \E p \in Handlers : HandlerSendOk(p)
    \/ \E p \in Handlers : HandlerSendErr(p)
    \/ EngineStart
    \/ EnginePanic
    \/ EngineRecv
    \/ EngineInsert
    \/ Tick
    \/ \E i \in TimerIds : TimerPop(i)
    \/ TimerCallback
    \/ DispatcherRecv
    \/ DispatcherRecvErr
    \/ \E ok \in BOOLEAN : DispatcherNotified(ok)

Spec == Init /\ [][Next]_vars

\* The handlers and the engine thread are scheduled fairly; nothing is assumed
\* of the clock, the timer thread, the dispatcher or the notifier.
EngineFairness ==
    /\ WF_vars(EngineStart)
    /\ WF_vars(EngineRecv)
    /\ WF_vars(EngineInsert)
    /\ \A p \in Handlers : WF_vars(HandlerSendOk(p)) /\ WF_vars(HandlerSendErr(p))

EngineFairSpec == Spec /\ EngineFairness

\* The timer thread runs and time passes.
TimerFairness ==
    /\ WF_vars(Tick)
    /\ WF_vars(\E i \in TimerIds : TimerPop(i))
    /\ WF_vars(TimerCallback)

\* Handlers, engine and timer thread are scheduled fairly; nothing is assumed
\* of the dispatcher or the notifier, which may stay inside notify_failure.
StuckDispatcherSpec == Spec /\ EngineFairness /\ TimerFairness

\* Every thread is scheduled fairly, time passes, and notify_failure returns.
FairSpec ==
    /\ Spec
    /\ EngineFairness
    /\ WF_vars(Tick)
    /\ WF_vars(\E i \in TimerIds : TimerPop(i))
    /\ WF_vars(TimerCallback)
    /\ WF_vars(DispatcherRecv)
    /\ WF_vars(\E ok \in BOOLEAN : DispatcherNotified(ok))

(***************************************************************************)
(* Histories read off the state                                            *)
(***************************************************************************)

\* Pings of k the engine has processed: each one scheduled a timer.
PingsProcessed(k) == Cardinality({i \in TimerIds : timers[i].key = k})

\* Alert Events emitted for k so far.
AlertsFor(k) == Cardinality({n \in 1..Len(sent) : sent[n] = k})

\* Deadlines of k actually missed: a timer of k came due while it was the
\* newest of k, so no ping of k was processed within the grace period.
MissedDeadlines(k) == Cardinality({i \in TimerIds : timers[i].key = k /\ timers[i].lapsed})

\* The callback of timer i has started (and possibly finished).
HasFired(i) == timers[i].st \in {"firing", "fired"}

\* A live Timer Handle: scheduled, not cancelled, not yet fired.
Live(i) == timers[i].st = "scheduled" /\ timers[i].should_execute

(***************************************************************************)
(* C1: for every key k, as long as every ping of k has been processed less *)
(* than the grace period after the previous one (no deadline of k has been *)
(* missed), no Alert Event for k is on its way or on the alert channel.    *)
(* Stated as the claim; the code violates it.                              *)
(***************************************************************************)
C1_NoAlertWhileRenewed ==
    \A k \in Keys : MissedDeadlines(k) = 0 =>
        /\ AlertsFor(k) = 0
        /\ \A i \in TimerIds : timers[i].key = k => ~HasFired(i)

(***************************************************************************)
(* C3: the deadline of a key is measured from its most recent ping: a      *)
(* timer fires only when the full grace period has passed since its own    *)
(* ping and no later ping of the key had been processed by then (no firing *)
(* at t1 + G after a ping at t2 < t1 + G).  Stated as the claim; the code  *)
(* violates it.                                                            *)
(***************************************************************************)
C3_DeadlineFromLastPing ==
    \A i \in TimerIds : HasFired(i) => timers[i].remaining = 0 /\ timers[i].lapsed

(***************************************************************************)
(* C4: for every key the number of Alert Events emitted never exceeds the  *)
(* number of deadlines actually missed.  Stated as the claim; the code     *)
(* violates it.                                                            *)
(***************************************************************************)
C4_AlertsAtMostMissed ==
    \A k \in Keys : AlertsFor(k) <= MissedDeadlines(k)

(***************************************************************************)
(* C5: in every reachable state there is at most one live Timer Handle per *)
(* key.  Stated as the claim; the code violates it.                        *)
(***************************************************************************)
C5_AtMostOneLivePerKey ==
    \A k \in Keys : Cardinality({i \in TimerIds : timers[i].key = k /\ Live(i)}) <= 1

(***************************************************************************)
(* C6: once the Guard of a timer has been dropped, the timer never starts  *)
(* firing: a scheduled timer whose should_execute flag is cleared stays    *)
(* scheduled or is discarded, in every step.                               *)
(***************************************************************************)
C6_NoFiringAfterDrop ==
    [][\A i \in TimerIds :
          (timers[i].st = "scheduled" /\ ~timers[i].should_execute)
              => timers'[i].st \in {"scheduled", "discarded"}]_vars

\* C6 witness: a superseded timer came due after its Guard was dropped and was
\* discarded without firing, and the timer that replaced it has fired.
C6_Witness ==
    \E i, j \in TimerIds :
        /\ i < j
        /\ timers[i].key = timers[j].key
        /\ timers[i].st = "discarded"
        /\ timers[j].st = "fired"

(***************************************************************************)
(* C2: a key pinged once gets exactly one Alert Event: while one ping of k *)
(* has been processed at most one alert of k has been emitted, and under   *)
(* fair scheduling the alert is eventually emitted unless another ping of  *)
(* k is processed.                                                         *)
(***************************************************************************)
C2_ExactlyOneAlert ==
    \A k \in Keys :
        /\ [](PingsProcessed(k) = 1 => AlertsFor(k) <= 1)
        /\ (PingsProcessed(k) = 1) ~> (AlertsFor(k) = 1 \/ PingsProcessed(k) >= 2)

\* C2 witness: one ping of a key was processed, its deadline was missed, and
\* its one alert has been emitted and handed to the notifier.
C2_Witness ==
    \E k \in Keys :
        /\ PingsProcessed(k) = 1
        /\ MissedDeadlines(k) = 1
        /\ AlertsFor(k) = 1
        /\ notified = <<k>>

(***************************************************************************)
(* C7: when notify_failure has returned an error for the n-th alert and a  *)
(* further alert has been put on the alert channel, that alert is          *)
(* eventually taken off and passed to the notifier.                        *)
(***************************************************************************)
C7_DispatchContinuesAfterError ==
    \A n \in 1..NumHandlers :
        (Len(outcome) >= n /\ ~outcome[n] /\ Len(sent) > n)
            ~> (Len(notified) > n /\ notified[n + 1] = sent[n + 1])

\* C7 witness: the notifier failed for k1, and the next alert, of another key
\* k2, has been passed to the notifier.
C7_Witness ==
    /\ Len(outcome) >= 1
    /\ ~outcome[1]
    /\ Len(notified) >= 2
    /\ notified[2] # notified[1]

(***************************************************************************)
(* C8 as stated: a handler that found the ping channel full answers 503.   *)
(***************************************************************************)
C8_FullAnswers503 ==
    \A p \in Handlers : (hpc[p] = "done" /\ hfull[p]) => hstatus[p] = 503

(***************************************************************************)
(* C8, amended: a handler answers 503 only when the receiving end of the   *)
(* ping channel is gone; a handler that found the channel full while the   *)
(* engine lives waits for a free slot and answers 200.                     *)
(***************************************************************************)
C8_FullBlocksUntilFreed ==
    \A p \in Handlers :
        /\ hstatus[p] = 503 => epc = "dead"
        /\ (hpc[p] = "done" /\ hfull[p] /\ epc # "dead") => hstatus[p] = 200

\* C8 witness: a handler found the channel full, and has answered 200 with the
\* engine alive.
C8_Witness ==
    \E p \in Handlers : hfull[p] /\ hpc[p] = "done" /\ hstatus[p] = 200 /\ epc # "dead"

(***************************************************************************)
(* C9: a handler that returns answers 200 and has put its key at the end   *)
(* of the ping channel, or answers 503 and has left the ping channel, the  *)
(* registry and the timers as they were.                                   *)
(***************************************************************************)
C9_StatusMatchesEnqueue ==
    [][\A p \in Handlers :
          (hpc[p] = "sending" /\ hpc'[p] = "done") =>
              \/ hstatus'[p] = 200 /\ pingChan' = Append(pingChan, hkey[p])
              \/ /\ hstatus'[p] = 503
                 /\ UNCHANGED <<pingChan, active_timers, timers>>]_vars

\* C9 witness: one handler has answered 200 and another 503.
C9_Witness ==
    \E p, q \in Handlers : hstatus[p] = 200 /\ hstatus[q] = 503

(***************************************************************************)
(* C10: every invocation of the ingestion handler eventually returns a     *)
(* status, when the handlers and the engine loop are scheduled fairly,     *)
(* whatever the dispatcher, the notifier and the timers do.                *)
(***************************************************************************)
C10_HandlerReturns ==
    \A p \in Handlers : (hpc[p] = "sending") ~> (hpc[p] = "done" /\ hstatus[p] # 0)

\* C10 witness: a handler that found the channel full has returned while the
\* dispatcher is still inside notify_failure.
C10_Witness ==
    \E p \in Handlers : hfull[p] /\ hpc[p] = "done" /\ dpc = "notify"

(***************************************************************************)
(* C11: the dispatcher delivers alerts in FIFO order, one at a time, one   *)
(* attempt each: the keys passed to notify_failure are a prefix of the     *)
(* keys put on the alert channel, the rest is still in the channel in      *)
(* order, and at most one call has not returned yet.                       *)
(***************************************************************************)
C11_NotifiedPrefixOfSent ==
    /\ sent = notified \o alertChan
    /\ Len(notified) = Len(outcome) + (IF dpc = "notify" THEN 1 ELSE 0)
    /\ dpc = "notify" => dkey = notified[Len(notified)]

\* C11 witness: two alerts of different keys were delivered in the order they
\* were put on the channel, the first of them with a failing notifier.
C11_Witness ==
    /\ Len(notified) = 2
    /\ notified[1] # notified[2]
    /\ Len(outcome) >= 1
    /\ ~outcome[1]

(***************************************************************************)
(* C12: the Timer Registry changes only in the engine loop's insert, and a *)
(* timer callback appends its own key to the alert channel and leaves the  *)
(* registry, the ping channel and every other timer as they were.          *)
(***************************************************************************)
C12_CallbackOnlyEnqueues ==
    [][/\ active_timers' # active_timers => (epc = "insert" /\ epc' = "recv")
       /\ (tpc # 0 /\ tpc' = 0) =>
             /\ alertChan' = Append(alertChan, timers[tpc].key)
             /\ UNCHANGED <<active_timers, pingChan, epc, id, newGuard>>
             /\ \A i \in TimerIds : i # tpc => timers'[i] = timers[i]]_vars

\* C12 witness: a callback has put its key on the alert channel while its key
\* is registered and another timer is on the schedule.
C12_Witness ==
    \E i, j \in TimerIds :
        /\ timers[i].st = "fired"
        /\ alertChan = <<timers[i].key>>
        /\ active_timers[timers[i].key] = i
        /\ timers[j].st = "scheduled"

(***************************************************************************)
(* C13: the ping channel never holds more keys than its capacity, and a    *)
(* key is enqueued only into a free slot.                                  *)
(***************************************************************************)
C13_PingChannelBounded ==
    /\ Len(pingChan) <= PingCapacity
    /\ \A p \in Handlers : hpc[p] = "sending" => hstatus[p] = 0

\* C13 witness: the channel is full and a producer is blocked in send.
C13_Witness ==
    /\ Len(pingChan) = PingCapacity
    /\ epc # "dead"
    /\ \E p \in Handlers : hpc[p] = "sending"

(***************************************************************************)
(* C15: a dispatcher stuck in the notifier holds nobody back: with no      *)
(* fairness assumed of the dispatcher, every callback that has started     *)
(* finishes its send, and every ping accepted while the engine runs gets   *)
(* its timer scheduled.                                                    *)
(***************************************************************************)
Accepted == Cardinality({p \in Handlers : hstatus[p] = 200})

\* The state of the i-th timer scheduled, "none" before it is scheduled.
StateOf(i) == IF i \in TimerIds THEN timers[i].st ELSE "none"

\* Timer i was scheduled for a key one of whose earlier timers has fired.
EarlierFired(i) ==
    /\ i \in TimerIds
    /\ \E j \in TimerIds : j < i /\ timers[j].key = timers[i].key /\ timers[j].st = "fired"

\* A ping of the key of timer i was processed after the one that scheduled i.
LaterPing(i) ==
    /\ i \in TimerIds
    /\ \E j \in TimerIds : j > i /\ timers[j].key = timers[i].key

C15_NoBackpressure ==
    /\ \A i \in 1..NumHandlers :
          (StateOf(i) = "firing") ~> (StateOf(i) = "fired")
    /\ \A n \in 1..NumHandlers :
          (epc \in {"recv", "insert"} /\ Accepted >= n) ~> (Len(timers) >= n)

\* C15 witness: while the dispatcher is inside notify_failure, a further alert
\* has been put on the alert channel and waits there.
C15_Witness ==
    /\ dpc = "notify"
    /\ Len(sent) = 2
    /\ Len(alertChan) = 1
    /\ Len(outcome) = 0

(***************************************************************************)
(* C16: monitoring is re-armed after an alert.  Once the newest timer of a *)
(* key has fired, no alert of the key is emitted in a step that processes  *)
(* no ping; and a timer scheduled for a key that already had a timer fire  *)
(* eventually fires too, unless a further ping of the key is processed.    *)
(***************************************************************************)
NewestFired(k) ==
    \E i \in TimerIds : timers[i].key = k /\ IsNewest(i) /\ timers[i].st = "fired"

C16_RearmedAfterAlert ==
    /\ [][\A k \in Keys :
             (NewestFired(k) /\ Len(timers') = Len(timers) /\ Len(sent') > Len(sent))
                 => sent'[Len(sent')] # k]_vars
    /\ \A i \in 1..NumHandlers :
          EarlierFired(i) ~> (StateOf(i) = "fired" \/ LaterPing(i))

\* C16 witness: a key was pinged, missed its deadline and was alerted, then
\* pinged again, missed the new deadline and was alerted a second time.
C16_Witness ==
    \E k \in Keys :
        /\ PingsProcessed(k) = 2
        /\ AlertsFor(k) = 2
        /\ MissedDeadlines(k) = 2

(***************************************************************************)
(* C18: the engine never removes a key from the Timer Registry: the entry  *)
(* of every key is the Guard of the last ping of the key the engine has    *)
(* inserted, fired or not, and a key has no entry only if no ping of it    *)
(* has been inserted.                                                      *)
(***************************************************************************)
Inserted(k) == {i \in TimerIds : timers[i].key = k /\ i # newGuard}

C18_RegistryHoldsEveryPingedKey ==
    \A k \in Keys :
        /\ active_timers[k] = 0 <=> Inserted(k) = {}
        /\ active_timers[k] # 0 =>
              /\ active_timers[k] \in Inserted(k)
              /\ \A i \in Inserted(k) : i <= active_timers[k]

\* C18 witness: the handle of a key has fired and its alert was delivered,
\* and the stale entry is still in the registry.
C18_Witness ==
    \E k \in Keys :
        /\ active_timers[k] # 0
        /\ timers[active_timers[k]].st = "fired"
        /\ notified = <<k>>
        /\ Len(outcome) = 1

(***************************************************************************)
(* C19: keys are independent: a step of the engine that processes a ping   *)
(* of one key leaves the registry entry and every timer of any other key   *)
(* as they were.                                                           *)
(***************************************************************************)
C19_KeysIndependent ==
    [][\A k \in Keys :
          (/\ epc \in {"recv", "insert"}
           /\ epc' # epc
           /\ k # (IF epc = "recv" THEN id' ELSE id))
            => /\ active_timers'[k] = active_timers[k]
               /\ \A i \in TimerIds : timers[i].key = k => timers'[i] = timers[i]]_vars

\* C19 witness: a ping of one key was processed after a ping of another, and
\* the timer of the first is still live with the deadline it had.
C19_Witness ==
    \E i, j \in TimerIds :
        /\ i < j
        /\ timers[i].key # timers[j].key
        /\ active_timers[timers[i].key] = i
        /\ active_timers[timers[j].key] = j
        /\ Live(i)
        /\ Live(j)
        /\ timers[i].remaining < timers[j].remaining

(***************************************************************************)
(* C20: no alert without a ping: for every key the Alert Events emitted    *)
(* are as many as its timers that have fired, each timer once, so at most  *)
(* as many as the pings of the key the engine has processed.               *)
(***************************************************************************)
C20_NoAlertWithoutPing ==
    \A k \in Keys :
        /\ AlertsFor(k) = Cardinality({i \in TimerIds : timers[i].key = k
                                                        /\ timers[i].st = "fired"})
        /\ AlertsFor(k) <= PingsProcessed(k)

\* C20 witness: every ping processed has had its alert, for two keys.
C20_Witness ==
    \A k \in Keys : PingsProcessed(k) = 1 /\ AlertsFor(k) = 1

(***************************************************************************)
(* C14: the notifier is decided at startup from the settings: "noop" gives *)
(* the no-op notifier, "webhook" with webhook settings the webhook         *)
(* notifier, "webhook" without them and any other type abort startup; and  *)
(* until the notifier is built, and for ever after an abort, no ping has   *)
(* been accepted, no thread has run and no alert has been dispatched.      *)
(***************************************************************************)
NothingHasRun ==
    /\ \A p \in Handlers : hpc[p] = "idle"
    /\ epc = "start"
    /\ pingChan = <<>> /\ timers = <<>> /\ sent = <<>>
    /\ dpc = "recv" /\ notified = <<>> /\ ~dwarned /\ ~ewarned

\* What the claim says startup makes of the settings cfg.
Decided(cfg, n, pc) ==
    /\ cfg.notifier_type = "noop" => (n = "noop" /\ pc = "serving")
    /\ (cfg.notifier_type = "webhook" /\ cfg.webhook) => (n = "webhook" /\ pc = "serving")
    /\ (cfg.notifier_type = "webhook" /\ ~cfg.webhook) => (n = "none" /\ pc = "aborted")
    /\ cfg.notifier_type \notin {"noop", "webhook"} => (n = "none" /\ pc = "aborted")

C14_NotifierDecidedAtStartup ==
    [][/\ (mpc = "boot" /\ mpc' # "boot") => Decided(settings, notifier', mpc')
       /\ mpc # "boot" => notifier' = notifier
       /\ mpc = "aborted" => mpc' = "aborted"
       /\ (mpc \in {"boot", "aborted"} => NothingHasRun)']_vars

\* C14 witness: build_notifier returned Err, startup was aborted and nothing
\* has run.
C14_Witness ==
    /\ mpc = "aborted"
    /\ notifier = "none"
    /\ NothingHasRun

(***************************************************************************)
(* C17: when receiving from the ping channel fails the engine logs and     *)
(* goes on: the step schedules no timer, cancels none and leaves the       *)
(* registry and the channels as they were, and the timers that are live    *)
(* afterwards still fire.                                                  *)
(***************************************************************************)
LiveAfterRecvErr(i) == ewarned /\ i \in TimerIds /\ Live(i)

====
